---- MODULE Spec2Model ----
(***************************************************************************)
(* Deal-watch loop of the vinyl listing tool                               *)
(* (scripts/deal_hunter_watch.py): load_state / one_pass / save_state in   *)
(* single-pass and continuous mode, and the polite_call minimum-interval   *)
(* throttle, alone and shared by concurrent callers.                        *)
(*                                                                         *)
(* Money is counted in thousandths of a pound, time in tenths of a second. *)
(* A listing title is the set of the words it contains; "t in title" of    *)
(* the code is membership in that set.                                     *)
(***************************************************************************)
EXTENDS Integers, Sequences, FiniteSets, TLC

\* ------------------------------------------------------------------ bounds
\* item ids the feed draws from
MaxId == 2
\* listings in one fetched feed (the code asks for limit=20)
MaxFeed == 2
\* passes started over all processes of a behaviour
MaxPasses == 2
\* the monotonic clock stops advancing here
MaxTime == 40
\* outbound calls recorded per endpoint
MaxCalls == 2
\* listings in one fetched feed of the two-run scenario
MaxSame == 1
\* characters in a catalog number
MaxCat == 2
\* entries the Discogs searches of the exact-match path return
MaxResults == 2
\* pieces in a listing title handed to the identifier extraction
MaxTitle == 6
\* lookups made on one DiscogsAPI object
MaxLookups == 3
\* tenths of a second the token bucket is followed for, and take calls made
\* on it, where its grants are added up
MaxTicks == 3
MaxTakes == 4

\* ------------------------------------------------------- program constants
\* None: the value of state["last_seen"].get(name) for a search never seen,
\* and of state["last_run"] before the first pass
NoId == 0
EBAY_MIN_INTERVAL_S == 20
DISCOGS_MIN_INTERVAL_S == 12
\* compute_profit's defaults for a format with no price_model entry
\* (fee_pct 12.8 as per-mille, fee_fix 0.30, min_profit 10, min_margin 20)
FeePctDefault == 128
FeeFixDefault == 300
MinProfitDefault == 10000
MinMarginDefault == 20

Max(a, b) == IF a >= b THEN a ELSE b

\* ----------------------------------------------------------- configuration
\* searches/discovery.yaml: two searches; "floyd" names its Discogs release,
\* "kraftwerk" relies on auto-matching.  No price_model is configured, so
\* compute_profit runs on its defaults.
discovery ==
  [ defaults |-> [ exclude_terms |-> {"faulty"} ],
    searches |-> << [ name |-> "floyd", max_price |-> 20000,
                      exclude_terms |-> {}, formats |-> <<"vinyl">>,
                      discogs_release_id |-> 7 ],
                    [ name |-> "kraftwerk", max_price |-> 20000,
                      exclude_terms |-> {"lot"}, formats |-> <<"vinyl">>,
                      discogs_release_id |-> NoId ] >> ]

searches == discovery.searches
Names == { searches[i].name : i \in 1..Len(searches) }

\* -------------------------------------------------------------- the feed
\* item ids: the Browse API gives every item summary a non-empty itemId
Ids == 1..MaxId
\* what a listing may look like: plain, carrying the default exclude term,
\* carrying a bundle keyword, or priced above both searches' max_price
Kinds == { [ title |-> {"lp"},           total |-> 10000 ],
           [ title |-> {"lp", "faulty"}, total |-> 10000 ],
           [ title |-> {"lp", "lot"},    total |-> 10000 ],
           [ title |-> {"lp"},           total |-> 50000 ] }
Listings == { [ item_id |-> i, title |-> k.title, total |-> k.total ] : i \in Ids, k \in Kinds }

RECURSIVE SeqsUpTo(_, _)
SeqsUpTo(S, n) ==
  IF n = 0 THEN { <<>> }
  ELSE LET shorter == SeqsUpTo(S, n - 1)
       IN  shorter \cup { Append(q, x) : q \in { r \in shorter : Len(r) = n - 1 }, x \in S }

\* what search_active_listings may return: any list of listings, newest first
Responses == SeqsUpTo(Listings, MaxFeed)

\* ------------------------------------------------------------ watch state
DefaultState == [ last_seen |-> [ n \in Names |-> NoId ], last_run |-> NoId ]

\* the state file: absent, holding a complete JSON document, or truncated
AbsentFile  == [ kind |-> "absent",  data |-> DefaultState ]
PartialFile == [ kind |-> "partial", data |-> DefaultState ]
JsonFile(st) == [ kind |-> "json", data |-> st ]

load_state(f) == IF f.kind = "json" THEN f.data ELSE DefaultState

\* --------------------------------------------------------------- one_pass
exclude(s) == s.exclude_terms \cup discovery.defaults.exclude_terms

\* scan without its boundary test
RECURSIVE scan_noBoundary(_, _, _, _)
scan_noBoundary(items, i, last_seen, s) ==
  IF i > Len(items) THEN <<>>
  ELSE LET it == items[i]
       IN  IF it.title \cap exclude(s) # {} THEN scan_noBoundary(items, i + 1, last_seen, s)
           ELSE IF it.total > s.max_price THEN scan_noBoundary(items, i + 1, last_seen, s)
           ELSE <<it>> \o scan_noBoundary(items, i + 1, last_seen, s)

\* the scan loop of one_pass from position i: exclude filter, price filter,
\* then the boundary test, in that order
RECURSIVE scan(_, _, _, _)
scan(items, i, last_seen, s) ==
  IF i > Len(items) THEN <<>>
  ELSE LET it == items[i]
       IN  IF it.title \cap exclude(s) # {} THEN scan(items, i + 1, last_seen, s)
           ELSE IF it.total > s.max_price THEN scan(items, i + 1, last_seen, s)
           ELSE IF last_seen # NoId /\ it.item_id = last_seen THEN <<>>
           ELSE <<it>> \o scan(items, i + 1, last_seen, s)

\* compute_profit with the default price model: <<proj, margin qualifies>>
target_net(basis) ==
  Max(0, basis - (basis * FeePctDefault) \div 1000 - FeeFixDefault - 0 - 0)

proj(it, basis) == target_net(basis) - it.total

\* margin >= min_margin, margin being proj / buy * 100 when buy > 0 and 0 otherwise
margin_ok(it, basis) ==
  IF it.total > 0 THEN proj(it, basis) * 100 >= MinMarginDefault * it.total
  ELSE 0 >= MinMarginDefault

qualifies(it, basis) == proj(it, basis) >= MinProfitDefault /\ margin_ok(it, basis)

\* what the matcher may answer for one listing
MatchOutcomes == { "none", "low", "raise", "match" }
\* the basis price Discogs may suggest (0: no suggestion, or the call raised)
BasisPrices == { 0, 60000 }

\* SmartMatcher phase 1: bundle, multi-album and damaged indicators
BUNDLE_KEYWORDS == { "lot", "bundle", "job lot", "collection", "box set", "boxset", "box-set" }
MULTI_ALBUM_INDICATORS == { "&", " + " }
DAMAGED_KEYWORDS == { "spares", "repair", "case only", "inlay only", "cover only",
                      "for parts", "not working", "damaged" }
\* the prefilter without its bundle keywords
phase1_noBundle(title) ==
  title \cap (MULTI_ALBUM_INDICATORS \cup DAMAGED_KEYWORDS) = {}

phase1_prefilter(title) ==
  title \cap (BUNDLE_KEYWORDS \cup MULTI_ALBUM_INDICATORS \cup DAMAGED_KEYWORDS) = {}

VARIABLES
  pc,          \* where main is: off, loaded, fetch, process, save, writing, sleep,
               \* exited, dead
  once,        \* the --once flag of the running process
  state,       \* the in-memory WatchState
  file,        \* the state file on disk
  idx,         \* index of the search one_pass is at
  items,       \* the feed fetched for the current search, until its listings are processed
  boundary,    \* last_seen as read at line 109 for the current search
  new_items,   \* new_items of the current search
  todo,        \* index into new_items of the next listing to process
  log,         \* lines appended to the deal log for the current search
  passNo,      \* passes started so far
  seen0,       \* last_seen when the current pass started
  failed,      \* searches whose fetch raised in the current pass
  done,        \* searches fully processed in the current pass
  passesDone,  \* one_pass calls that returned in this process
  saveCalls,   \* save_state calls made by this process
  lastSaved,   \* the state of the last save_state that completed
  ended,       \* how the last process ended: none, exit, savefail, or where it was interrupted
  feed,        \* two-run scenario: what each search's fetch answers, once chosen
  new1,        \* two-run scenario: the listings the first run treated as new
  clock,       \* time.monotonic()
  last,        \* the attributes polite_call keeps on itself, one per endpoint
  thr,         \* each caller's position in polite_call
  starts,      \* per endpoint, when its outbound calls started
  raised,      \* an outbound call has raised
  matchErr,    \* matcher.find_best_match raised for a listing of the current pass
  call,        \* the function last called on its own, with its arguments
  ret,         \* what that call returned
  dc,          \* the DiscogsAPI object: its two caches and the lookups made on it
  firstData,   \* per lookup method and release id, the data of its first success
  bucket,      \* the TokenBucket object: tokens and the time since updated
  waiters,     \* each thread's position in TokenBucket.wait
  audit        \* tokens granted and time elapsed since the bucket was built

watchVars == << pc, once, state, file, idx, items, boundary, new_items, todo, log,
                passNo, seen0, failed, done, passesDone, saveCalls, lastSaved, ended,
                matchErr >>

scenarioVars == << feed, new1 >>

limiterVars == << clock, last, thr, starts, raised >>

pureVars == << call, ret >>

cacheVars == << dc, firstData >>

bucketVars == << bucket, waiters, audit >>

objVars == << cacheVars, bucketVars >>

otherVars == << scenarioVars, limiterVars, pureVars, objVars >>

vars == << watchVars, otherVars >>

Running == { "loaded", "fetch", "process", "save", "writing", "sleep" }

WatchInit ==
  /\ pc = "off"
  /\ once = FALSE
  /\ state = DefaultState
  /\ file = AbsentFile
  /\ idx = 1
  /\ items = <<>>
  /\ boundary = NoId
  /\ new_items = <<>>
  /\ todo = 1
  /\ log = {}
  /\ passNo = 0
  /\ seen0 = DefaultState.last_seen
  /\ failed = {}
  /\ done = {}
  /\ passesDone = 0
  /\ saveCalls = 0
  /\ lastSaved = DefaultState
  /\ ended = "none"
  /\ matchErr = FALSE

Unset == [ st |-> "unset", items |-> <<>> ]

ScenarioInit ==
  /\ feed = [ i \in 1..Len(searches) |-> Unset ]
  /\ new1 = {}

\* ------------------------------------------------------------ polite_call
Endpoints == { "_last_ebay", "_last_discogs" }
Interval(k) == IF k = "_last_ebay" THEN EBAY_MIN_INTERVAL_S ELSE DISCOGS_MIN_INTERVAL_S
Callers == { 1, 2 }
\* how far the clock moves in one step
Ticks == { 12, 20 }

Idle == [ pc |-> "idle", key |-> "_last_ebay", wake |-> 0 ]

LimiterInit ==
  /\ clock = 0
  /\ last = [ k \in Endpoints |-> 0 ]
  /\ thr = [ c \in Callers |-> Idle ]
  /\ starts = [ k \in Endpoints |-> <<>> ]
  /\ raised = FALSE

\* no function has been called on its own
NoCall == [ fn |-> "none" ]

PureInit ==
  /\ call = NoCall
  /\ ret = NoCall

\* TokenBucket.__init__ defaults
rate_per_sec == 4
burst == 8

\* the ids looked up on Discogs, and the versions of a release's data the
\* server may answer with (0: no data)
NoData == 0
ReleaseIds == 1..MaxId
DataVersions == { 1, 2 }
Lookups == { "get_release", "get_price_suggestions" }

\* DiscogsAPI.__init__: both caches empty
CacheInit ==
  /\ dc = [ release_cache |-> [ i \in ReleaseIds |-> NoData ],
            price_cache   |-> [ i \in ReleaseIds |-> NoData ],
            calls         |-> 0 ]
  /\ firstData = [ f \in Lookups |-> [ i \in ReleaseIds |-> NoData ] ]

\* TokenBucket.__init__: tokens = capacity = burst (kept in tenths of a token)
BucketThreads == { 1, 2 }
Resting == [ pc |-> "idle", n |-> 0 ]

BucketInit ==
  /\ bucket = [ tokens |-> burst * 10, since |-> 0 ]
  /\ waiters = [ c \in BucketThreads |-> Resting ]
  /\ audit = [ granted |-> 0, elapsed |-> 0, takes |-> 0 ]

Init == WatchInit /\ ScenarioInit /\ LimiterInit /\ PureInit /\ CacheInit /\ BucketInit

\* the start of one_pass
BeginPass(st) ==
  /\ pc' = "fetch"
  /\ idx' = 1
  /\ passNo' = passNo + 1
  /\ seen0' = st.last_seen
  /\ failed' = {}
  /\ done' = {}
  /\ items' = <<>>
  /\ boundary' = NoId
  /\ new_items' = <<>>
  /\ todo' = 1
  /\ log' = {}
  /\ matchErr' = FALSE

\* the process is gone and its memory with it
Forget ==
  /\ state' = DefaultState
  /\ idx' = 1
  /\ items' = <<>>
  /\ boundary' = NoId
  /\ new_items' = <<>>
  /\ todo' = 1
  /\ log' = {}
  /\ seen0' = DefaultState.last_seen
  /\ failed' = {}
  /\ done' = {}
  /\ matchErr' = FALSE

\* main up to load_state: a process starts, with or without --once
Start ==
  /\ pc \in { "off", "exited", "dead" }
  /\ \E o \in BOOLEAN : once' = o
  /\ state' = load_state(file)
  /\ pc' = "loaded"
  /\ passesDone' = 0
  /\ saveCalls' = 0
  /\ UNCHANGED << file, idx, items, boundary, new_items, todo, log, passNo,
                  seen0, failed, done, lastSaved, ended >>
  /\ UNCHANGED matchErr
  /\ UNCHANGED otherVars

\* main enters its first one_pass
FirstPass ==
  /\ pc = "loaded"
  /\ passNo < MaxPasses
  /\ BeginPass(state)
  /\ ended' = "none"
  /\ UNCHANGED << once, state, file, passesDone, saveCalls, lastSaved >>
  /\ UNCHANGED otherVars

\* a fetch failure that ends the pass instead of skipping the search
FailBody_abort ==
  /\ failed' = failed \cup { idx }
  /\ idx' = Len(searches) + 1
  /\ UNCHANGED << pc, state, items, boundary, new_items, todo >>

\* lines 99-107 when the fetch raises: the search is skipped
FailBody ==
  /\ failed' = failed \cup { idx }
  /\ idx' = idx + 1
  /\ UNCHANGED << pc, state, items, boundary, new_items, todo >>

\* the fetch of searches[idx] raises
FetchFail ==
  /\ pc = "fetch"
  /\ idx <= Len(searches)
  /\ FailBody
  /\ UNCHANGED << once, file, log, passNo, seen0, done, passesDone, saveCalls,
                  lastSaved, ended >>
  /\ UNCHANGED matchErr
  /\ UNCHANGED otherVars

\* ScanBody with the boundary moved to the oldest of the new listings
ScanBody_oldestNew(r) ==
  LET s    == searches[idx]
      seen == state.last_seen[s.name]
      new  == scan(r, 1, seen, s)
  IN  /\ items' = r
      /\ boundary' = seen
      /\ new_items' = new
      /\ todo' = 1
      /\ state' = IF new # <<>>
                  THEN [ state EXCEPT !.last_seen[s.name] = new[Len(new)].item_id ]
                  ELSE state
      /\ pc' = "process"
      /\ UNCHANGED << idx, failed >>

\* lines 109-125 on the fetched feed r
ScanBody(r) ==
  LET s    == searches[idx]
      seen == state.last_seen[s.name]
      new  == scan(r, 1, seen, s)
  IN  /\ items' = r
      /\ boundary' = seen
      /\ new_items' = new
      /\ todo' = 1
      /\ state' = IF new # <<>>
                  THEN [ state EXCEPT !.last_seen[s.name] = new[1].item_id ]
                  ELSE state
      /\ pc' = "process"
      /\ UNCHANGED << idx, failed >>

\* the fetch of searches[idx] returns a feed
FetchOk ==
  /\ pc = "fetch"
  /\ idx <= Len(searches)
  /\ \E r \in Responses : ScanBody(r)
  /\ UNCHANGED << once, file, log, passNo, seen0, done, passesDone, saveCalls,
                  lastSaved, ended >>
  /\ UNCHANGED matchErr
  /\ UNCHANGED otherVars

\* ProcessItem with the matcher's exception leaving the loop over new_items
ProcessItem_raiseLeavesLoop ==
  /\ pc = "process"
  /\ todo <= Len(new_items)
  /\ LET s  == searches[idx]
         it == new_items[todo]
     IN  \E m \in MatchOutcomes, basis \in BasisPrices :
           LET matched  == s.discogs_release_id # NoId \/ m = "match"
               reported == matched /\ qualifies(it, basis)
               err      == s.discogs_release_id = NoId /\ m = "raise"
           IN  /\ log' = IF reported
                         THEN log \cup { [ name |-> s.name, item_id |-> it.item_id,
                                           title |-> it.title ] }
                         ELSE log
               /\ matchErr' = (matchErr \/ err)
               /\ todo' = IF err THEN Len(new_items) + 1 ELSE todo + 1
  /\ items' = <<>>
  /\ UNCHANGED << pc, once, state, file, idx, boundary, new_items,
                  passNo, seen0, failed, done, passesDone, saveCalls, lastSaved, ended >>
  /\ UNCHANGED otherVars

\* lines 127-166 for one listing of new_items (each search lists one format)
ProcessItem ==
  /\ pc = "process"
  /\ todo <= Len(new_items)
  /\ LET s  == searches[idx]
         it == new_items[todo]
     IN  \E m \in MatchOutcomes, basis \in BasisPrices :
           LET matched  == s.discogs_release_id # NoId \/ m = "match"
               reported == matched /\ qualifies(it, basis)
           IN  /\ log' = IF reported
                         THEN log \cup { [ name |-> s.name, item_id |-> it.item_id,
                                           title |-> it.title ] }
                         ELSE log
               /\ matchErr' = (matchErr \/ (s.discogs_release_id = NoId /\ m = "raise"))
  /\ todo' = todo + 1
  /\ items' = <<>>
  /\ UNCHANGED << pc, once, state, file, idx, boundary, new_items,
                  passNo, seen0, failed, done, passesDone, saveCalls, lastSaved, ended >>
  /\ UNCHANGED otherVars

\* the listings of the search are exhausted: on to the next search
NextSearch ==
  /\ pc = "process"
  /\ todo > Len(new_items)
  /\ done' = done \cup { idx }
  /\ idx' = idx + 1
  /\ pc' = "fetch"
  /\ items' = <<>>
  /\ boundary' = NoId
  /\ new_items' = <<>>
  /\ todo' = 1
  /\ log' = {}
  /\ UNCHANGED << once, state, file, passNo, seen0, failed,
                  passesDone, saveCalls, lastSaved, ended >>
  /\ UNCHANGED matchErr
  /\ UNCHANGED otherVars

\* main going to sleep after one_pass without saving
EndPass_noSave ==
  /\ pc = "fetch"
  /\ idx > Len(searches)
  /\ state' = [ state EXCEPT !.last_run = passNo ]
  /\ passesDone' = passesDone + 1
  /\ pc' = IF once THEN "save" ELSE "sleep"
  /\ UNCHANGED << once, file, idx, items, boundary, new_items, todo, log,
                  passNo, seen0, failed, done, saveCalls, lastSaved, ended >>
  /\ UNCHANGED matchErr
  /\ UNCHANGED otherVars

\* one_pass returns; main stamps last_run and is about to call save_state
EndPass ==
  /\ pc = "fetch"
  /\ idx > Len(searches)
  /\ state' = [ state EXCEPT !.last_run = passNo ]
  /\ passesDone' = passesDone + 1
  /\ pc' = "save"
  /\ UNCHANGED << once, file, idx, items, boundary, new_items, todo, log,
                  passNo, seen0, failed, done, saveCalls, lastSaved, ended >>
  /\ UNCHANGED matchErr
  /\ UNCHANGED otherVars

\* save_state: write_text opens the file for writing, which truncates it
SaveOpen ==
  /\ pc = "save"
  /\ saveCalls' = saveCalls + 1
  /\ file' = PartialFile
  /\ pc' = "writing"
  /\ UNCHANGED << once, state, idx, items, boundary, new_items, todo, log,
                  passNo, seen0, failed, done, passesDone, lastSaved, ended >>
  /\ UNCHANGED matchErr
  /\ UNCHANGED otherVars

\* save_state: the document is written and the file closed; main goes on
SaveWrite ==
  /\ pc = "writing"
  /\ file' = JsonFile(state)
  /\ lastSaved' = state
  /\ IF once
     THEN pc' = "exited" /\ ended' = "exit" /\ Forget
     ELSE pc' = "sleep" /\ UNCHANGED << ended, state, idx, items, boundary, new_items,
                                        todo, log, seen0, failed, done, matchErr >>
  /\ UNCHANGED << once, passNo, passesDone, saveCalls >>
  /\ UNCHANGED otherVars

\* save_state raises before the file is opened (mkdir or open fails):
\* nothing catches it and the process ends
SaveFailOpen ==
  /\ pc = "save"
  /\ saveCalls' = saveCalls + 1
  /\ pc' = "dead"
  /\ ended' = "savefail"
  /\ Forget
  /\ UNCHANGED << once, file, passNo, passesDone, lastSaved >>
  /\ UNCHANGED otherVars

\* save_state raises after the file was truncated (the write fails)
SaveFailWrite ==
  /\ pc = "writing"
  /\ pc' = "dead"
  /\ ended' = "savefail"
  /\ Forget
  /\ UNCHANGED << once, file, passNo, passesDone, saveCalls, lastSaved >>
  /\ UNCHANGED otherVars

\* continuous mode: the sleep ends and the next pass starts
Sleep ==
  /\ pc = "sleep"
  /\ passNo < MaxPasses
  /\ BeginPass(state)
  /\ UNCHANGED << once, state, file, passesDone, saveCalls, lastSaved, ended >>
  /\ UNCHANGED otherVars

\* the process is stopped from outside (KeyboardInterrupt, kill, power loss):
\* no handler exists, so it ends wherever it is
Interrupt ==
  /\ pc \in Running
  /\ ended' = pc
  /\ pc' = "dead"
  /\ Forget
  /\ UNCHANGED << once, file, passNo, passesDone, saveCalls, lastSaved >>
  /\ UNCHANGED otherVars

Next ==
  \/ Start
  \/ FirstPass
  \/ FetchFail
  \/ FetchOk
  \/ ProcessItem
  \/ NextSearch
  \/ EndPass
  \/ SaveOpen
  \/ SaveWrite
  \/ SaveFailOpen
  \/ SaveFailWrite
  \/ Sleep
  \/ Interrupt

Spec == Init /\ [][Next]_vars

\* --------------------------------------------- polite_call, step by step
\* lines 42-45: read the clock and the endpoint's attribute, compute the wait
PoliteEnter(c, k) ==
  /\ thr[c].pc = "idle"
  /\ Len(starts[k]) < MaxCalls
  /\ LET tnow == clock
         wait == Interval(k) - (tnow - last[k])
     IN  thr' = [ thr EXCEPT ![c] =
                    IF wait > 0
                    THEN [ pc |-> "sleeping", key |-> k, wake |-> tnow + wait ]
                    ELSE [ pc |-> "ready", key |-> k, wake |-> 0 ] ]
  /\ UNCHANGED << clock, last, starts, raised >>
  /\ UNCHANGED << watchVars, scenarioVars, pureVars, objVars >>

\* line 46: time.sleep(wait) returns once at least wait has passed
PoliteWake(c) ==
  /\ thr[c].pc = "sleeping"
  /\ clock >= thr[c].wake
  /\ thr' = [ thr EXCEPT ![c].pc = "ready", ![c].wake = 0 ]
  /\ UNCHANGED << clock, last, starts, raised >>
  /\ UNCHANGED << watchVars, scenarioVars, pureVars, objVars >>

\* line 47: the outbound call starts
PoliteCall(c) ==
  /\ thr[c].pc = "ready"
  /\ starts' = [ starts EXCEPT ![thr[c].key] = Append(@, clock) ]
  /\ thr' = [ thr EXCEPT ![c].pc = "calling" ]
  /\ UNCHANGED << clock, last, raised >>
  /\ UNCHANGED << watchVars, scenarioVars, pureVars, objVars >>

\* lines 47-49: the call returns and the endpoint's attribute is set
PoliteReturn(c) ==
  /\ thr[c].pc = "calling"
  /\ last' = [ last EXCEPT ![thr[c].key] = clock ]
  /\ thr' = [ thr EXCEPT ![c] = Idle ]
  /\ UNCHANGED << clock, starts, raised >>
  /\ UNCHANGED << watchVars, scenarioVars, pureVars, objVars >>

\* line 47: the call raises; line 48 is not reached
PoliteRaise(c) ==
  /\ thr[c].pc = "calling"
  /\ raised' = TRUE
  /\ thr' = [ thr EXCEPT ![c] = Idle ]
  /\ UNCHANGED << clock, last, starts >>
  /\ UNCHANGED << watchVars, scenarioVars, pureVars, objVars >>

Tick ==
  /\ \E d \in Ticks : clock + d <= MaxTime /\ clock' = clock + d
  /\ UNCHANGED << last, thr, starts, raised >>
  /\ UNCHANGED << watchVars, scenarioVars, pureVars, objVars >>

\* one caller: its polite_call invocations follow one another
NextPolite ==
  \/ \E k \in Endpoints : PoliteEnter(1, k)
  \/ PoliteWake(1)
  \/ PoliteCall(1)
  \/ PoliteReturn(1)
  \/ PoliteRaise(1)
  \/ Tick

SpecPolite == Init /\ [][NextPolite]_vars

\* several threads share polite_call
NextThreads ==
  \/ \E c \in Callers, k \in Endpoints : PoliteEnter(c, k)
  \/ \E c \in Callers : PoliteWake(c)
  \/ \E c \in Callers : PoliteCall(c)
  \/ \E c \in Callers : PoliteReturn(c)
  \/ \E c \in Callers : PoliteRaise(c)
  \/ Tick

SpecThreads == Init /\ [][NextThreads]_vars

\* ------------------------------------------------- the two-run scenario
\* Two --once runs against a feed that does not change: each search's fetch
\* answers in the second run what it answered in the first (a feed, or an
\* error).  The state file the first run finds is any file an earlier run
\* may have left.
Answers ==
  { [ st |-> "error", items |-> <<>> ] } \cup
  { [ st |-> "ok", items |-> r ] : r \in SeqsUpTo(Listings, MaxSame) }

InitTwice == Init

TwicePrior ==
  /\ pc = "off"
  /\ passNo = 0
  /\ file = AbsentFile
  /\ \E f \in [ Names -> Ids \cup { NoId } ] :
       /\ file' = JsonFile([ last_seen |-> f, last_run |-> NoId ])
       /\ lastSaved' = [ last_seen |-> f, last_run |-> NoId ]
  /\ UNCHANGED << pc, once, state, idx, items, boundary, new_items, todo, log,
                  passNo, seen0, failed, done, passesDone, saveCalls, ended >>
  /\ UNCHANGED matchErr
  /\ UNCHANGED otherVars

TwiceStart ==
  /\ passNo < 2
  /\ pc \in { "off", "exited" }
  /\ Start
  /\ once' = TRUE

TwiceFetch ==
  /\ pc = "fetch"
  /\ idx <= Len(searches)
  /\ \E a \in IF feed[idx] = Unset THEN Answers ELSE { feed[idx] } :
       /\ feed' = [ feed EXCEPT ![idx] = a ]
       /\ IF a.st = "error"
          THEN FailBody /\ UNCHANGED new1
          ELSE /\ ScanBody(a.items)
               /\ new1' = IF passNo = 1
                           THEN new1 \cup { [ name |-> searches[idx].name,
                                              item_id |-> new_items'[k].item_id ] :
                                            k \in 1..Len(new_items') }
                           ELSE new1
  /\ UNCHANGED << once, file, log, passNo, seen0, done, passesDone, saveCalls,
                  lastSaved, ended >>
  /\ UNCHANGED matchErr
  /\ UNCHANGED << limiterVars, pureVars, objVars >>

NextTwice ==
  \/ TwicePrior
  \/ TwiceStart
  \/ FirstPass
  \/ TwiceFetch
  \/ ProcessItem
  \/ NextSearch
  \/ EndPass
  \/ SaveOpen
  \/ SaveWrite

SpecTwice == InitTwice /\ [][NextTwice]_vars

\* ------------------------------------------------- the profit projection
\* Functions studied on their own: a step calls one of them on arguments drawn
\* from a bounded set and records the arguments and the result.
\*
\* defaults.price_model[fmt] as compute_profit and one_pass read it: fee_pct
\* is a percentage, kept here in tenths of a percent
PriceModels ==
  [ outbound_postage_gbp : { 0, 4500 },
    mailer_cost_gbp      : { 0, 500 },
    fee_pct              : { 119, FeePctDefault },
    fee_fix_gbp          : { FeeFixDefault },
    min_profit_gbp       : { 0, MinProfitDefault },
    min_margin_pct       : { 0, MinMarginDefault } ]

\* item["total"] of a listing: missing or unparsable prices give 0
Totals == { 0, 10000, 20000, 40000 }
\* the Discogs price suggestion (0: none); whole pounds
Bases == { 0, 1000, 50000, 60000 }

\* margin in hundredths of a percent: (proj / buy * 100) if buy > 0 else 0
margin_pct(projected, buy) == IF buy > 0 THEN (projected * 10000) \div buy ELSE 0

\* compute_profit, lines 67-77, on the basis price found at lines 52-65
compute_profit(buy, basis, pm) ==
  LET net == Max(0, basis - (basis * pm.fee_pct) \div 1000 - pm.fee_fix_gbp
                       - pm.outbound_postage_gbp - pm.mailer_cost_gbp)
  IN  [ basis |-> basis, proj |-> net - buy, margin |-> margin_pct(net - buy, buy),
        target_net |-> net ]

\* the gate with either threshold sufficing
gate_either(cp, pm) ==
  cp.proj >= pm.min_profit_gbp \/ cp.margin >= pm.min_margin_pct * 100

\* one_pass line 159: proj >= min_profit and margin >= min_margin
gate(cp, pm) ==
  cp.proj >= pm.min_profit_gbp /\ cp.margin >= pm.min_margin_pct * 100

\* one_pass lines 155-166 for one (listing, format) with a release id
WatchProject ==
  /\ call.fn = "none"
  /\ \E buy \in Totals, basis \in Bases, pm \in PriceModels :
       LET cp == compute_profit(buy, basis, pm)
       IN  /\ call' = [ fn |-> "one_pass", buy |-> buy, basis |-> basis, pm |-> pm ]
           /\ ret' = [ basis |-> cp.basis, proj |-> cp.proj, margin |-> cp.margin,
                       target_net |-> cp.target_net, logged |-> gate(cp, pm) ]
  /\ UNCHANGED << watchVars, scenarioVars, limiterVars, objVars >>

\* defaults.price_model as the profit view reads it: the fees (fractions, kept
\* in thousandths) and the format's postage, packaging and thresholds
FeeModels ==
  [ discogs_pct          : { 90 },
    discogs_payment_pct  : { 29 },
    discogs_fixed        : { 300 },
    outbound_postage_gbp : { 2500, 4500 },
    mailer_cost_gbp      : { 500 },
    min_profit_gbp       : { 0, MinProfitDefault },
    min_margin_pct       : { 0, MinMarginDefault } ]

\* net_discogs with the payment fee left out
net_discogs_noPayment(price, fm) ==
  (price * (1000 - fm.discogs_pct)) \div 1000
    - fm.discogs_fixed - fm.outbound_postage_gbp - fm.mailer_cost_gbp

\* deal_hunter_smoketest.net_discogs, lines 40-48
net_discogs(price, fm) ==
  (price * (1000 - fm.discogs_pct - fm.discogs_payment_pct)) \div 1000
    - fm.discogs_fixed - fm.outbound_postage_gbp - fm.mailer_cost_gbp

\* max_price of the search the profit view runs
ViewMaxPrice == 20000

\* the profit view (deal_hunter_smoketest.main, lines 109-142) for one listing
\* that passed the exclude terms: rid is the search's release id, is_valid the
\* SmartMatcher's verdict, seller_ok the seller feedback test
ViewProject ==
  /\ call.fn = "none"
  /\ \E buy \in Totals, basis \in Bases, fm \in FeeModels,
        rid \in { NoId, 7 }, is_valid \in BOOLEAN, seller_ok \in BOOLEAN :
       LET net  == net_discogs(basis, fm)
           cp   == [ proj |-> net - buy, margin |-> margin_pct(net - buy, buy) ]
           skip == buy <= 0 \/ buy > ViewMaxPrice
           calc == ~skip /\ rid # NoId /\ basis > 0
       IN  /\ call' = [ fn |-> "profit_view", buy |-> buy, basis |-> basis, pm |-> fm,
                        rid |-> rid, is_valid |-> is_valid, seller_ok |-> seller_ok ]
           /\ ret' = [ projected  |-> calc,
                       target_net |-> IF calc THEN net ELSE 0,
                       proj       |-> IF calc THEN cp.proj ELSE 0,
                       margin     |-> IF calc THEN cp.margin ELSE 0,
                       ranked     |-> calc /\ is_valid /\ seller_ok /\ gate(cp, fm) ]
  /\ UNCHANGED << watchVars, scenarioVars, limiterVars, objVars >>

NextProfit ==
  \/ WatchProject
  \/ ViewProject

SpecProfit == Init /\ [][NextProfit]_vars

\* ------------------------------------------------------ SmartMatcher.match
\* A title is the set of the phrases it contains, as written; lower() maps
\* each to its lower-case form, and "keyword in title" is membership.
TitleWords == { "Pink Floyd", "Box Set", "Bundle", "Lot", "LP", "Cassette", "Damaged" }

Lower(w) ==
  CASE w = "Pink Floyd" -> "pink floyd"
    [] w = "Box Set"    -> "box set"
    [] w = "Bundle"     -> "bundle"
    [] w = "Lot"        -> "lot"
    [] w = "LP"         -> "lp"
    [] w = "Cassette"   -> "cassette"
    [] w = "Damaged"    -> "damaged"
    [] OTHER            -> w

lower(title) == { Lower(w) : w \in title }

EBAY_FORMAT_TERMS ==
  << [ format |-> "cassette", terms |-> { "cassette", "tape", "mc" } ],
     [ format |-> "vinyl",    terms |-> { "vinyl", "lp", "12\"", "12 inch", "7\"", "7 inch", "record" } ],
     [ format |-> "cd",       terms |-> { "cd", "compact disc" } ] >>

DISCOGS_FORMAT_TERMS(f) ==
  CASE f = "cassette" -> "Cassette"
    [] f = "vinyl"    -> "Vinyl"
    [] f = "cd"       -> "CD"

\* _phase2_format_validation: <<format_match, confidence in tenths>>;
\* discogs_format is the set of format terms the release carries
phase2_format_validation(ebay_title, discogs_format) ==
  LET hits == { i \in 1..Len(EBAY_FORMAT_TERMS) : EBAY_FORMAT_TERMS[i].terms \cap ebay_title # {} }
  IN  IF hits = {} THEN << TRUE, 8 >>
      ELSE LET first == CHOOSE i \in hits : \A j \in hits : i <= j
               required == DISCOGS_FORMAT_TERMS(EBAY_FORMAT_TERMS[first].format)
           IN  IF required \notin discogs_format THEN << FALSE, 0 >> ELSE << TRUE, 10 >>

\* _phase3_title_matching on the similarity (percent) SequenceMatcher gives
\* for the two cleaned titles
phase3_title_matching(similarity) ==
  IF similarity < 70 THEN << FALSE, 0 >> ELSE << TRUE, similarity >>

\* _phase4_price_sanity: is a warning returned
phase4_price_sanity(ebay_price, discogs_price) ==
  IF discogs_price = 0 THEN FALSE
  ELSE \/ ebay_price * 10 < discogs_price
       \/ ebay_price * 2 > discogs_price * 3
       \/ ebay_price * 2 < discogs_price

\* SmartMatcher.match; confidence in ten-thousandths
match(ebay_item, discogs_release, similarity) ==
  LET ebay_title == lower(ebay_item.title)
      p2 == phase2_format_validation(ebay_title, discogs_release.format)
      p3 == phase3_title_matching(similarity)
      warn == phase4_price_sanity(ebay_item.price, discogs_release.median_price)
  IN  IF ~phase1_prefilter(ebay_title) THEN [ is_valid |-> FALSE, confidence |-> 0 ]
      ELSE IF ~p2[1] THEN [ is_valid |-> FALSE, confidence |-> 0 ]
      ELSE IF ~p3[1] THEN [ is_valid |-> FALSE, confidence |-> 0 ]
      ELSE [ is_valid |-> TRUE,
             confidence |-> p2[2] * p3[2] * (IF warn THEN 9 ELSE 10) ]

EbayPrices == { 1000, 10000, 40000 }
MedianPrices == { 0, 20000 }
DiscogsFormats == { {}, { "Vinyl" }, { "Cassette" } }
Similarities == { 50, 70, 100 }

CallMatch ==
  /\ call.fn = "none"
  /\ \E t \in SUBSET TitleWords, price \in EbayPrices, median \in MedianPrices,
        fmt \in DiscogsFormats, sim \in Similarities :
       /\ call' = [ fn |-> "match", title |-> t, price |-> price, median_price |-> median,
                    format |-> fmt, similarity |-> sim ]
       /\ ret' = match([ title |-> t, price |-> price ],
                       [ format |-> fmt, median_price |-> median ], sim)
  /\ UNCHANGED << watchVars, scenarioVars, limiterVars, objVars >>

NextMatch ==
  \/ CallMatch

SpecMatch == Init /\ [][NextMatch]_vars

\* ------------------------------- SmartMatcher.match, stages and reasons
\* The messages appended to self.rejection_reasons, by what they say
Phase1Reasons(ebay_title) ==
  IF ebay_title \cap BUNDLE_KEYWORDS # {} THEN << "REJECT: Bundle indicator found" >>
  ELSE IF ebay_title \cap MULTI_ALBUM_INDICATORS # {} THEN << "REJECT: Multiple albums detected" >>
  ELSE IF ebay_title \cap DAMAGED_KEYWORDS # {} THEN << "REJECT: Damaged/incomplete indicator" >>
  ELSE <<>>

Phase2Reasons(ebay_title, discogs_format) ==
  LET p2 == phase2_format_validation(ebay_title, discogs_format)
  IN  IF ~p2[1] THEN << "REJECT: Format mismatch" >>
      ELSE IF p2[2] = 8 THEN << "WARNING: Could not detect format from eBay title" >>
      ELSE <<>>

Phase3Reasons(similarity) ==
  IF ~phase3_title_matching(similarity)[1]
  THEN << "REJECT: Title similarity too low", "  eBay:", "  Discogs:" >>
  ELSE <<>>

Phase4Reasons(ebay_price, discogs_price) ==
  IF phase4_price_sanity(ebay_price, discogs_price) THEN << "WARNING: price" >> ELSE <<>>

\* match on an object whose list was left as it is from the call before
match_stages_noReset(rejection_reasons, ebay_item, discogs_release, similarity) ==
  LET ebay_title == lower(ebay_item.title)
      m  == match(ebay_item, discogs_release, similarity)
      r1 == rejection_reasons \o Phase1Reasons(ebay_title)
      r2 == r1 \o Phase2Reasons(ebay_title, discogs_release.format)
      r3 == r2 \o Phase3Reasons(similarity)
      r4 == r3 \o Phase4Reasons(ebay_item.price, discogs_release.median_price)
  IN  IF ~phase1_prefilter(ebay_title)
      THEN [ is_valid |-> FALSE, confidence |-> 0, reasons |-> r1, ran |-> << 1 >> ]
      ELSE IF ~phase2_format_validation(ebay_title, discogs_release.format)[1]
      THEN [ is_valid |-> FALSE, confidence |-> 0, reasons |-> r2, ran |-> << 1, 2 >> ]
      ELSE IF ~phase3_title_matching(similarity)[1]
      THEN [ is_valid |-> FALSE, confidence |-> 0, reasons |-> r3, ran |-> << 1, 2, 3 >> ]
      ELSE [ is_valid |-> TRUE, confidence |-> m.confidence, reasons |-> r4,
             ran |-> << 1, 2, 3, 4 >> ]

\* SmartMatcher.match with the list it returns and the phases it went
\* through; rejection_reasons is self.rejection_reasons as the call finds
\* it, which line 56 replaces by an empty list
match_stages(rejection_reasons, ebay_item, discogs_release, similarity) ==
  LET ebay_title == lower(ebay_item.title)
      m  == match(ebay_item, discogs_release, similarity)
      r1 == <<>> \o Phase1Reasons(ebay_title)
      r2 == r1 \o Phase2Reasons(ebay_title, discogs_release.format)
      r3 == r2 \o Phase3Reasons(similarity)
      r4 == r3 \o Phase4Reasons(ebay_item.price, discogs_release.median_price)
  IN  IF ~phase1_prefilter(ebay_title)
      THEN [ is_valid |-> FALSE, confidence |-> 0, reasons |-> r1, ran |-> << 1 >> ]
      ELSE IF ~phase2_format_validation(ebay_title, discogs_release.format)[1]
      THEN [ is_valid |-> FALSE, confidence |-> 0, reasons |-> r2, ran |-> << 1, 2 >> ]
      ELSE IF ~phase3_title_matching(similarity)[1]
      THEN [ is_valid |-> FALSE, confidence |-> 0, reasons |-> r3, ran |-> << 1, 2, 3 >> ]
      ELSE [ is_valid |-> TRUE, confidence |-> m.confidence, reasons |-> r4,
             ran |-> << 1, 2, 3, 4 >> ]

StageTitles == SUBSET { "Pink Floyd", "Lot", "LP", "Cassette" }
StagePrices == { 1000, 10000 }
StageFormats == { { "Vinyl" }, { "Cassette" } }

\* calls made one after the other on one SmartMatcher object
MaxMatches == 2

\* the no-th call of match on the object; ret.reasons of the call before is
\* the list the object still holds
CallMatchStages ==
  /\ call.fn = "none" \/ (call.fn = "match on one object" /\ call.no < MaxMatches)
  /\ \E t \in StageTitles, price \in StagePrices, median \in MedianPrices,
        fmt \in StageFormats, similarity \in Similarities :
       /\ call' = [ fn |-> "match on one object",
                    no |-> IF call.fn = "none" THEN 1 ELSE call.no + 1,
                    title |-> t, price |-> price, median_price |-> median,
                    format |-> fmt, similarity |-> similarity ]
       /\ ret' = match_stages(IF call.fn = "none" THEN <<>> ELSE ret.reasons,
                              [ title |-> t, price |-> price ],
                              [ format |-> fmt, median_price |-> median ], similarity)
  /\ UNCHANGED << watchVars, scenarioVars, limiterVars, objVars >>

NextStages ==
  \/ CallMatchStages

SpecStages == Init /\ [][NextStages]_vars

\* ------------------------------- DiscogsAutoMatcher._calculate_match_score
\* Strings whose content matters are sequences of characters; similarities
\* (SequenceMatcher ratios) are percentages given with the arguments; the
\* score is in thousandths.
CatChars == { "A", "a", "b" }
\* the listing's catalog number: _extract_identifiers drops its spaces
EbayCatNos == SeqsUpTo(CatChars, MaxCat)
\* the catalog number of a Discogs result
CatNos == SeqsUpTo(CatChars \cup { " " }, MaxCat)

\* str.lower and str.replace(" ", "") on a sequence of characters
LowerChar(c) == IF c = "A" THEN "a" ELSE c

RECURSIVE lower_str(_)
lower_str(x) == IF x = <<>> THEN <<>> ELSE << LowerChar(Head(x)) >> \o lower_str(Tail(x))

RECURSIVE remove_spaces(_)
remove_spaces(x) ==
  IF x = <<>> THEN <<>>
  ELSE IF Head(x) = " " THEN remove_spaces(Tail(x))
  ELSE << Head(x) >> \o remove_spaces(Tail(x))

\* a in b
Contains(b, a) == \E i \in 0..(Len(b) - Len(a)) : SubSeq(b, i + 1, i + Len(a)) = a

\* lines 381-416: which of artist and album the Discogs result yields.  Its
\* title is empty, an album alone, or "Artist - Album"; the artist may also
\* come from its artist field
discogs_artist_found(res) == res.title = "artist - album" \/ res.artist
discogs_album_found(res) == res.title # ""

\* lines 502-516 without the rejection of conflicting catalog numbers
catno_points_noVeto(identifiers, discogs_result) ==
  LET discogs_catno == lower_str(remove_spaces(discogs_result.catno))
      ebay_catno    == lower_str(identifiers.catalog_number)
  IN  IF identifiers.catalog_number = <<>> \/ discogs_catno = <<>> THEN 0
      ELSE IF Contains(discogs_catno, ebay_catno) \/ Contains(ebay_catno, discogs_catno)
      THEN 100
      ELSE 0

\* lines 502-516: the points for the catalog number, -1 for "return 0.0"
catno_points(identifiers, discogs_result) ==
  LET discogs_catno == lower_str(remove_spaces(discogs_result.catno))
      ebay_catno    == lower_str(identifiers.catalog_number)
  IN  IF identifiers.catalog_number = <<>> \/ discogs_catno = <<>> THEN 0
      ELSE IF Contains(discogs_catno, ebay_catno) \/ Contains(ebay_catno, discogs_catno)
      THEN 100
      ELSE -1

\* _calculate_match_score for identifiers with artist and album set (the only
\* ones find_best_match passes on)
calculate_match_score(identifiers, ebay_item, discogs_result) ==
  LET has_artist == discogs_artist_found(discogs_result)
      has_album  == discogs_album_found(discogs_result)
      artist_similarity == IF has_artist THEN discogs_result.artist_similarity ELSE 0
      album_similarity  == IF has_album THEN discogs_result.album_similarity ELSE 0
      year_points ==
        IF identifiers.year # 0 /\ discogs_result.year # 0
        THEN LET d == IF identifiers.year >= discogs_result.year
                      THEN identifiers.year - discogs_result.year
                      ELSE discogs_result.year - identifiers.year
             IN  IF d = 0 THEN 150 ELSE IF d = 1 THEN 100 ELSE IF d <= 2 THEN 50 ELSE 0
        ELSE 0
      country_points ==
        IF identifiers.country # ""
        THEN IF identifiers.country = discogs_result.country THEN 100
             ELSE IF discogs_result.country \in { "Europe", "EU" }
                     /\ identifiers.country \in { "UK", "DE", "FR" } THEN 50
             ELSE 0
        ELSE 0
      format_points ==
        IF discogs_result.vinyl_format /\ ebay_item.vinyl_title THEN 50 ELSE 0
      cat == catno_points(identifiers, discogs_result)
  IN  IF has_artist /\ artist_similarity < 60 THEN 0
      ELSE IF has_album /\ album_similarity < 60 THEN 0
      ELSE IF cat = -1 THEN 0
      ELSE (IF has_artist THEN artist_similarity * 3 ELSE 50)
           + (IF has_album THEN album_similarity * 3 ELSE 50)
           + year_points + country_points + format_points + cat

ScoreSims == { 59, 60, 100 }

CallScore ==
  /\ call.fn = "none"
  /\ \E ecat \in EbayCatNos, dcat \in CatNos, year \in { 0, 1973 }, country \in { "", "UK" },
        vinyl \in BOOLEAN, title \in { "", "album", "artist - album" }, artist \in BOOLEAN,
        a_sim \in ScoreSims, t_sim \in ScoreSims :
       LET identifiers == [ artist |-> "artist", album |-> "album", year |-> year,
                            country |-> country, catalog_number |-> ecat ]
           ebay_item   == [ vinyl_title |-> vinyl ]
           res == [ title |-> title, artist |-> artist, artist_similarity |-> a_sim,
                    album_similarity |-> t_sim, year |-> 1973, country |-> "UK",
                    vinyl_format |-> TRUE, catno |-> dcat ]
       IN  /\ call' = [ fn |-> "_calculate_match_score", identifiers |-> identifiers,
                        ebay_item |-> ebay_item, discogs_result |-> res ]
           /\ ret' = [ score |-> calculate_match_score(identifiers, ebay_item, res) ]
  /\ UNCHANGED << watchVars, scenarioVars, limiterVars, objVars >>

NextScore ==
  \/ CallScore

SpecScore == Init /\ [][NextScore]_vars

\* ------------------------------------ DiscogsAutoMatcher._try_exact_match
\* _norm on the characters used here: non-alphanumerics dropped, lower case
norm(x) == lower_str(remove_spaces(x))

\* _sim of the listing's artist and album against an entry's, in percent
StringSims == { << 80, 60 >>, << 79, 100 >>, << 100, 59 >> }

\* an entry of dc.search_release(...): id 0 stands for a missing id
ExactEntries ==
  [ id : { 0, 1, 2 }, catno : { << "A" >>, << "b" >> }, barcode : { 5, 6 }, sims : StringSims ]

\* lines 227-250: does the entry pass the catalog-number, barcode and string
\* checks
entry_ok(identifiers, res) ==
  LET want_cat == identifiers.catalog_number # <<>>
      want_bar == identifiers.barcode # 0
  IN  /\ want_cat => norm(identifiers.catalog_number) = norm(res.catno)
      /\ want_bar => (res.barcode # 0 /\ identifiers.barcode = res.barcode)
      /\ res.sims[1] >= 80 /\ res.sims[2] >= 60

\* lines 226-260: the loop over the results from position i
RECURSIVE exact_loop(_, _, _)
exact_loop(identifiers, results, i) ==
  IF i > Len(results) THEN [ found |-> FALSE, rid |-> 0, confidence |-> 0 ]
  ELSE IF entry_ok(identifiers, results[i]) /\ results[i].id # 0
  THEN [ found |-> TRUE, rid |-> results[i].id, confidence |-> 98 ]
  ELSE exact_loop(identifiers, results, i + 1)

\* _try_exact_match: search is what the dc.search_release calls of lines
\* 218-224 do: raise (results = []) or return entries, those of the catalog
\* number search before those of the barcode search.  The DiscogsAPI of this
\* repository has no search_release method, so with it the call raises.
try_exact_match(identifiers, search) ==
  IF identifiers.catalog_number = <<>> /\ identifiers.barcode = 0
  THEN [ found |-> FALSE, rid |-> 0, confidence |-> 0 ]
  ELSE exact_loop(identifiers, IF search.raises THEN <<>> ELSE search.results, 1)

CallExact ==
  /\ call.fn = "none"
  /\ \E cat \in { <<>>, << "a" >> }, bar \in { 0, 5 }, raises \in BOOLEAN,
        results \in SeqsUpTo(ExactEntries, MaxResults) :
       LET identifiers == [ artist |-> "artist", album |-> "album",
                            catalog_number |-> cat, barcode |-> bar ]
           search == [ raises |-> raises, results |-> results ]
       IN  /\ call' = [ fn |-> "_try_exact_match", identifiers |-> identifiers,
                        search |-> search ]
           /\ ret' = try_exact_match(identifiers, search)
  /\ UNCHANGED << watchVars, scenarioVars, limiterVars, objVars >>

NextExact ==
  \/ CallExact

SpecExact == Init /\ [][NextExact]_vars

\* ------------------- _try_exact_match on entries with artist and title
\* The listing is "Pink Floyd - The Wall".  An entry carries an artist field
\* (absent: "") and a title, either combined, << artist part, album part >>
\* standing for "artist part - album part", or plain.
EntryArtists == { "", "Pink Floyd" }
EntryTitles == { << "Pink Floyd", "The Wall" >>, << "The Wall" >>, << "Animals" >> }

\* res.get('title') as one string
whole_title(title) ==
  IF title = << "Pink Floyd", "The Wall" >> THEN "Pink Floyd - The Wall" ELSE title[1]

\* _sim, lines 196-198: 0.0 when either string is empty, else the
\* SequenceMatcher ratio of the lowercased strings, here in percent as
\* difflib computes it for the strings in use
sim(a, b) ==
  IF a = "" \/ b = "" THEN 0
  ELSE IF a = b THEN 100
  ELSE CASE << a, b >> = << "Pink Floyd", "The Wall" >> -> 22
         [] << a, b >> = << "Pink Floyd", "Animals" >> -> 23
         [] << a, b >> = << "Pink Floyd", "Pink Floyd - The Wall" >> -> 64
         [] << a, b >> = << "The Wall", "Pink Floyd" >> -> 22
         [] << a, b >> = << "The Wall", "Animals" >> -> 26
         [] << a, b >> = << "The Wall", "Pink Floyd - The Wall" >> -> 55

TitledEntries ==
  [ id : { 0, 1 }, catno : { << "A" >>, << "b" >> }, barcode : { 5, 6 },
    artist : EntryArtists, title : EntryTitles ]

\* lines 227-229 and 208-210: d_artist is the entry's artist field, d_title
\* its title as it stands
entry_sims(identifiers, res) ==
  << sim(identifiers.artist, res.artist), sim(identifiers.album, whole_title(res.title)) >>

RECURSIVE with_sims(_, _)
with_sims(identifiers, results) ==
  IF results = <<>> THEN <<>>
  ELSE << [ id |-> Head(results).id, catno |-> Head(results).catno,
            barcode |-> Head(results).barcode,
            sims |-> entry_sims(identifiers, Head(results)) ] >>
         \o with_sims(identifiers, Tail(results))

CallExactTitled ==
  /\ call.fn = "none"
  /\ \E cat \in { <<>>, << "a" >> }, bar \in { 0, 5 },
        results \in SeqsUpTo(TitledEntries, MaxResults) :
       LET identifiers == [ artist |-> "Pink Floyd", album |-> "The Wall",
                            catalog_number |-> cat, barcode |-> bar ]
           search == [ raises |-> FALSE, results |-> with_sims(identifiers, results) ]
       IN  /\ call' = [ fn |-> "_try_exact_match on titles", identifiers |-> identifiers,
                        results |-> results ]
           /\ ret' = try_exact_match(identifiers, search)
  /\ UNCHANGED << watchVars, scenarioVars, limiterVars, objVars >>

NextTitled ==
  \/ CallExactTitled

SpecTitled == Init /\ [][NextTitled]_vars

\* --------------------------------- DiscogsAutoMatcher._parse_artist_album
\* A title is a sequence of pieces: the word "ab", the noise word "VG", a
\* space, a hyphen, an en-dash (the em-dash is treated alike) and a colon.
TitlePieces == { "ab", "VG", " ", "-", "\\u2013", ":" }
\* the titles of up to n pieces
ParseTitles(n) == SeqsUpTo(TitlePieces, n)

IsWord(p) == p \in { "ab", "VG" }

\* lines 159-161: the noise word is removed where it stands as a word of its
\* own (the \b on both sides)
RECURSIVE remove_noise_from(_, _)
remove_noise_from(title, i) ==
  IF i > Len(title) THEN <<>>
  ELSE LET own == /\ title[i] = "VG"
                  /\ (i = 1 \/ ~IsWord(title[i - 1]))
                  /\ (i = Len(title) \/ ~IsWord(title[i + 1]))
       IN  (IF own THEN <<>> ELSE << title[i] >>) \o remove_noise_from(title, i + 1)

remove_noise(title) == remove_noise_from(title, 1)

SEPARATORS == << << " ", "-", " " >>, << " ", "\\u2013", " " >>, << ":" >> >>

\* str.find: the first position of sep in x, 0 when there is none
IndexOf(x, sep) ==
  LET at == { i \in 1..(Len(x) - Len(sep) + 1) : SubSeq(x, i, i + Len(sep) - 1) = sep }
  IN  IF at = {} THEN 0 ELSE CHOOSE i \in at : \A j \in at : i <= j

\* str.strip
RECURSIVE strip(_)
strip(x) ==
  IF x = <<>> THEN <<>>
  ELSE IF Head(x) = " " THEN strip(Tail(x))
  ELSE IF x[Len(x)] = " " THEN strip(SubSeq(x, 1, Len(x) - 1))
  ELSE x

\* len() of a string of pieces
RECURSIVE len(_)
len(x) == IF x = <<>> THEN 0 ELSE (IF IsWord(Head(x)) THEN 2 ELSE 1) + len(Tail(x))

\* lines 164-176 from the k-th separator of seps on; <<>> stands for None
RECURSIVE try_separators(_, _, _)
try_separators(clean, seps, k) ==
  IF k > Len(seps) THEN [ artist |-> <<>>, album |-> <<>> ]
  ELSE LET sep == seps[k]
           i   == IndexOf(clean, sep)
           artist == strip(SubSeq(clean, 1, i - 1))
           album  == strip(SubSeq(clean, i + Len(sep), Len(clean)))
       IN  IF i # 0 /\ len(artist) > 1 /\ len(album) > 1
           THEN [ artist |-> artist, album |-> album ]
           ELSE try_separators(clean, seps, k + 1)

\* the parse with a bare hyphen accepted as a last separator
parse_artist_album_bareHyphen(title) ==
  try_separators(remove_noise(title), SEPARATORS \o << << "-" >> >>, 1)

parse_artist_album(title) == try_separators(remove_noise(title), SEPARATORS, 1)

\* find_best_match up to line 34: None when artist or album is unset,
\* otherwise the Discogs searches follow
CallFindBestMatch ==
  /\ call.fn = "none"
  /\ \E title \in ParseTitles(MaxTitle) :
       LET identifiers == parse_artist_album(title)
       IN  /\ call' = [ fn |-> "find_best_match", title |-> title ]
           /\ ret' = [ artist |-> identifiers.artist, album |-> identifiers.album,
                       result |-> IF identifiers.artist = <<>> \/ identifiers.album = <<>>
                                  THEN "None" ELSE "searches" ]
  /\ UNCHANGED << watchVars, scenarioVars, limiterVars, objVars >>

NextParse ==
  \/ CallFindBestMatch

SpecParse == Init /\ [][NextParse]_vars

\* ------------------------- EbaySearch._request, DiscogsAPI._make_request
\* What the server does on one attempt: a good answer, a 429, a 5xx, another
\* HTTP error, or no answer within the timeout.
Outcomes == { "ok", "429", "503", "404", "timeout" }

\* eBay: a new attempt is made while attempt < 6
EbayLastAttempt == 6
\* Discogs: the default of max_retries
max_retries == 5

EbayOutcomes == [ 1..(EbayLastAttempt + 1) -> Outcomes ]
DiscogsOutcomes == [ 1..max_retries -> Outcomes ]

\* EbaySearch._request(url, attempt): only an HTTPError with a transient
\* code is tried again; anything else is raised at once
RECURSIVE request(_, _)
request(outcomes, attempt) ==
  LET o == outcomes[attempt + 1]
  IN  IF o = "ok" THEN [ kind |-> "response", attempts |-> attempt + 1 ]
      ELSE IF o \in { "429", "503" } /\ attempt < EbayLastAttempt
           THEN request(outcomes, attempt + 1)
      ELSE [ kind |-> "raise", attempts |-> attempt + 1 ]

\* DiscogsAPI._make_request: the for loop over range(max_retries); a 429 or
\* a 5xx goes on to the next round, an exception is raised on the last
\* round only, and the end of the loop is the end of the function
RECURSIVE make_request(_, _)
make_request(outcomes, attempt) ==
  IF attempt >= max_retries THEN [ kind |-> "None", attempts |-> attempt ]
  ELSE LET o == outcomes[attempt + 1]
       IN  IF o = "ok" THEN [ kind |-> "response", attempts |-> attempt + 1 ]
           ELSE IF o \in { "429", "503" } THEN make_request(outcomes, attempt + 1)
           ELSE IF attempt = max_retries - 1
                THEN [ kind |-> "raise", attempts |-> attempt + 1 ]
           ELSE make_request(outcomes, attempt + 1)

CallRequest ==
  /\ call.fn = "none"
  /\ \E outcomes \in EbayOutcomes :
       /\ call' = [ fn |-> "_request", outcomes |-> outcomes ]
       /\ ret' = request(outcomes, 0)
  /\ UNCHANGED << watchVars, scenarioVars, limiterVars, objVars >>

CallMakeRequest ==
  /\ call.fn = "none"
  /\ \E outcomes \in DiscogsOutcomes :
       /\ call' = [ fn |-> "_make_request", outcomes |-> outcomes ]
       /\ ret' = make_request(outcomes, 0)
  /\ UNCHANGED << watchVars, scenarioVars, limiterVars, objVars >>

NextRetry ==
  \/ CallRequest
  \/ CallMakeRequest

SpecRetry == Init /\ [][NextRetry]_vars

\* ------------------------------------- one_pass on missing or malformed data
\* A value as it stands in a JSON document of eBay or Discogs: absent (None),
\* a number, or a text that does not read as a number.
NoValue  == [ kind |-> "None", n |-> 0 ]
TextValue == [ kind |-> "text", n |-> 0 ]
NumValue(n) == [ kind |-> "num", n |-> n ]

\* ebay_search._num: float(v), 0.0 when that raises
num(v) == IF v.kind = "num" THEN v.n ELSE 0

\* search_active_listings lines 92-94: total = (price or 0.0) + (ship or 0.0)
listing_total(price, ship) == num(price) + num(ship)

\* One grade of the price suggestions: the key is absent, or its entry is an
\* object holding a "value" (a number, a text, or nothing at all)
Grades ==
  { [ kind |-> "absent", value |-> NoValue ],
    [ kind |-> "entry",  value |-> NoValue ],
    [ kind |-> "entry",  value |-> TextValue ],
    [ kind |-> "entry",  value |-> NumValue(0) ],
    [ kind |-> "entry",  value |-> NumValue(60000) ] }

NoGrade == [ kind |-> "absent", value |-> NoValue ]

\* What dc.get_price_suggestions does: it raises, it returns None, or it
\* returns the document with its two grades
PriceSuggestions ==
  { [ kind |-> k, nm |-> NoGrade, vg |-> NoGrade ] : k \in { "raise", "None" } }
    \cup [ kind : { "dict" }, nm : Grades, vg : Grades ]

\* lines 58-64: psug.get(grade), then the entry's .get("value", 0.0)
grade_price(g) ==
  IF g.kind = "absent" THEN NoValue
  ELSE IF g.value.kind = "None" THEN NumValue(0)
  ELSE g.value

\* Python truth of such a value: None and 0.0 are false, a text is true
truthy(v) == v.kind = "text" \/ (v.kind = "num" /\ v.n # 0)

\* compute_profit lines 52-65: the lookup failure is caught and gives {};
\* float(nm_price or vg_price or 0.0) raises on a text
price_basis(psug) ==
  LET doc == IF psug.kind = "dict" THEN psug ELSE [ kind |-> "dict", nm |-> NoGrade, vg |-> NoGrade ]
      nm_price == grade_price(doc.nm)
      vg_price == grade_price(doc.vg)
      pick == IF truthy(nm_price) THEN nm_price ELSE IF truthy(vg_price) THEN vg_price ELSE NumValue(0)
  IN  IF pick.kind = "num" THEN [ raised |-> FALSE, basis |-> pick.n ]
      ELSE [ raised |-> TRUE, basis |-> 0 ]

\* the listings a search with a release id hands to the loop of line 127
RawListings ==
  [ price : { NoValue, TextValue, NumValue(10000) }, ship : { NoValue, TextValue },
    psug : PriceSuggestions ]

\* one_pass lines 127-166 from the i-th new listing on, for one format of a
\* search that names its release: the positions logged, the listings gone
\* through, and whether an exception left the pass
RECURSIVE process_new_items(_, _, _, _)
process_new_items(its, i, pm, logged) ==
  IF i > Len(its) THEN [ raised |-> FALSE, processed |-> i - 1, logged |-> logged ]
  ELSE LET b == price_basis(its[i].psug)
           cp == compute_profit(listing_total(its[i].price, its[i].ship), b.basis, pm)
       IN  IF b.raised THEN [ raised |-> TRUE, processed |-> i - 1, logged |-> logged ]
           ELSE process_new_items(its, i + 1, pm,
                                  IF gate(cp, pm) THEN logged \cup { i } ELSE logged)

\* price models without postage or packaging, thresholds default or zero
DataPriceModels ==
  { pm \in PriceModels : pm.outbound_postage_gbp = 0 /\ pm.mailer_cost_gbp = 0
                          /\ pm.fee_pct = FeePctDefault }

CallProcessNewItems ==
  /\ call.fn = "none"
  /\ \E its \in SeqsUpTo(RawListings, MaxFeed), pm \in DataPriceModels :
       /\ call' = [ fn |-> "process_new_items", items |-> its, pm |-> pm ]
       /\ ret' = process_new_items(its, 1, pm, {})
  /\ UNCHANGED << watchVars, scenarioVars, limiterVars, objVars >>

NextData ==
  \/ CallProcessNewItems

SpecData == Init /\ [][NextData]_vars

\* ------------------------- DiscogsAPI.get_release, get_price_suggestions
\* What the outbound request of a lookup comes to: NoData when _make_request
\* or response.json() fails (the except branch), else the data served, which
\* the server may change from one request to the next.
LookupAnswers == { NoData } \cup DataVersions

\* A cache is kept as a function of the release id, NoData standing for "not
\* in the cache".  get_release's key pairs the id with the configured
\* preferred_currency, which nothing changes while the process runs.
\*
\* get_release without the cache test of lines 125-126
get_release_alwaysAsks(d, release_id, answer) ==
  [ dc |-> [ d EXCEPT !.calls = @ + 1,
                      !.release_cache[release_id] =
                          IF answer # NoData THEN answer ELSE @ ],
    data |-> answer, requested |-> TRUE ]

\* DiscogsAPI.get_release
get_release(d, release_id, answer) ==
  IF d.release_cache[release_id] # NoData
  THEN [ dc |-> [ d EXCEPT !.calls = @ + 1 ],
         data |-> d.release_cache[release_id], requested |-> FALSE ]
  ELSE IF answer = NoData
  THEN [ dc |-> [ d EXCEPT !.calls = @ + 1 ], data |-> NoData, requested |-> TRUE ]
  ELSE [ dc |-> [ d EXCEPT !.calls = @ + 1, !.release_cache[release_id] = answer ],
         data |-> answer, requested |-> TRUE ]

\* DiscogsAPI.get_price_suggestions
get_price_suggestions(d, release_id, answer) ==
  IF d.price_cache[release_id] # NoData
  THEN [ dc |-> [ d EXCEPT !.calls = @ + 1 ],
         data |-> d.price_cache[release_id], requested |-> FALSE ]
  ELSE IF answer = NoData
  THEN [ dc |-> [ d EXCEPT !.calls = @ + 1 ], data |-> NoData, requested |-> TRUE ]
  ELSE [ dc |-> [ d EXCEPT !.calls = @ + 1, !.price_cache[release_id] = answer ],
         data |-> answer, requested |-> TRUE ]

\* one lookup on the object; firstData remembers the first data each method
\* returned for each id
Lookup(f, release_id, answer) ==
  /\ dc.calls < MaxLookups
  /\ LET r == IF f = "get_release" THEN get_release(dc, release_id, answer)
                                   ELSE get_price_suggestions(dc, release_id, answer)
     IN  /\ dc' = r.dc
         /\ call' = [ fn |-> f, release_id |-> release_id ]
         /\ ret' = [ data |-> r.data, requested |-> r.requested ]
         /\ firstData' = IF firstData[f][release_id] = NoData
                         THEN [ firstData EXCEPT ![f][release_id] = r.data ]
                         ELSE firstData
  /\ UNCHANGED << watchVars, scenarioVars, limiterVars, bucketVars >>

NextCache ==
  \/ \E release_id \in ReleaseIds, answer \in LookupAnswers : Lookup("get_release", release_id, answer)
  \/ \E release_id \in ReleaseIds, answer \in LookupAnswers : Lookup("get_price_suggestions", release_id, answer)

SpecCache == Init /\ [][NextCache]_vars

\* ------------------------------------------------------------ TokenBucket
\* Time is counted in tenths of a second (the sleep of wait), tokens in
\* tenths of a token.  The object keeps updated, and take reads only
\* now - updated: bucket.since is that difference.  It stops growing once
\* the refill it stands for fills the bucket, min(capacity, ...) giving
\* capacity from there on.
capacity == burst * 10
FullAfter == (capacity + rate_per_sec - 1) \div rate_per_sec

Min(a, b) == IF a <= b THEN a ELSE b

\* lines 15-18: the tokens after the refill
refill(b) == Min(capacity, b.tokens + b.since * rate_per_sec)

\* take with a refill that is not held to the capacity
take_noCap(b, n) ==
  LET tokens == b.tokens + b.since * rate_per_sec
  IN  IF tokens >= n * 10
      THEN [ bucket |-> [ tokens |-> tokens - n * 10, since |-> 0 ], ok |-> TRUE ]
      ELSE [ bucket |-> [ tokens |-> tokens, since |-> 0 ], ok |-> FALSE ]

\* TokenBucket.take, the body of "with self.lock"
take(b, n) ==
  LET tokens == refill(b)
  IN  IF tokens >= n * 10
      THEN [ bucket |-> [ tokens |-> tokens - n * 10, since |-> 0 ], ok |-> TRUE ]
      ELSE [ bucket |-> [ tokens |-> tokens, since |-> 0 ], ok |-> FALSE ]

\* the amounts asked for: nothing, one token, the whole burst, and more than
\* the bucket holds
Amounts == { 0, 1, burst, burst + 1 }

\* Where the grants are added up (counted), time and the number of take
\* calls are bounded; where they are not, audit stays as it is.
Counted(r, n) ==
  [ granted |-> audit.granted + (IF r.ok THEN n * 10 ELSE 0),
    elapsed |-> audit.elapsed, takes |-> audit.takes + 1 ]

\* time.monotonic() advances by a tenth of a second; the sleep of every
\* thread sleeping in wait is over
BucketTick(counted) ==
  /\ counted => audit.elapsed < MaxTicks
  /\ bucket' = [ bucket EXCEPT !.since = Min(@ + 1, FullAfter) ]
  /\ waiters' = [ c \in BucketThreads |->
                    IF waiters[c].pc = "sleep" THEN [ waiters[c] EXCEPT !.pc = "poll" ]
                    ELSE waiters[c] ]
  /\ audit' = IF counted THEN [ audit EXCEPT !.elapsed = @ + 1 ] ELSE audit
  /\ UNCHANGED << watchVars, scenarioVars, limiterVars, pureVars, cacheVars >>

\* a thread calls take(n) on the shared bucket
Take(c, n, counted) ==
  /\ waiters[c].pc = "idle"
  /\ counted => audit.takes < MaxTakes
  /\ LET r == take(bucket, n)
     IN  /\ bucket' = r.bucket
         /\ call' = [ fn |-> "take", thread |-> c, n |-> n ]
         /\ ret' = [ ok |-> r.ok ]
         /\ audit' = IF counted THEN Counted(r, n) ELSE audit
  /\ UNCHANGED << watchVars, scenarioVars, limiterVars, cacheVars, waiters >>

\* a thread calls wait(n)
WaitCall(c, n) ==
  /\ waiters[c].pc = "idle"
  /\ waiters' = [ waiters EXCEPT ![c] = [ pc |-> "poll", n |-> n ] ]
  /\ UNCHANGED << watchVars, scenarioVars, limiterVars, pureVars, cacheVars, bucket, audit >>

\* wait, lines 25-26: one round of "while not self.take(n): time.sleep(0.1)"
WaitPoll(c, counted) ==
  /\ waiters[c].pc = "poll"
  /\ counted => audit.takes < MaxTakes
  /\ LET r == take(bucket, waiters[c].n)
     IN  /\ bucket' = r.bucket
         /\ call' = [ fn |-> "wait", thread |-> c, n |-> waiters[c].n ]
         /\ ret' = [ ok |-> r.ok ]
         /\ waiters' = [ waiters EXCEPT ![c] = IF r.ok THEN Resting
                                                ELSE [ @ EXCEPT !.pc = "sleep" ] ]
         /\ audit' = IF counted THEN Counted(r, waiters[c].n) ELSE audit
  /\ UNCHANGED << watchVars, scenarioVars, limiterVars, cacheVars >>

NextBucket ==
  \/ BucketTick(TRUE)
  \/ \E c \in BucketThreads, n \in Amounts : Take(c, n, TRUE)
  \/ \E c \in BucketThreads, n \in Amounts : WaitCall(c, n)
  \/ \E c \in BucketThreads : WaitPoll(c, TRUE)

SpecBucket == Init /\ [][NextBucket]_vars

\* Threads that only wait, for amounts the bucket can hold, for as long as
\* one likes: every thread inside wait gets its rounds, and time goes on.
WaitAmounts == { 1, burst }

NextWait ==
  \/ BucketTick(FALSE)
  \/ \E c \in BucketThreads, n \in WaitAmounts : WaitCall(c, n)
  \/ \E c \in BucketThreads : WaitPoll(c, FALSE)

SpecWait ==
  /\ Init
  /\ [][NextWait]_vars
  /\ WF_vars(BucketTick(FALSE))
  /\ \A c \in BucketThreads : WF_vars(WaitPoll(c, FALSE))

\* ------------------------ DiscogsAutoMatcher.find_best_match, lines 36-73
\* A search result with the score _calculate_match_score gives it (in
\* thousandths); id 0 stands for a missing id.
ScoredResults == [ id : { 0, 1, 2 }, score : { 699, 700, 850 } ]

\* a result far below the threshold, to fill the head of a long result list
Filler == [ id |-> 1, score |-> 0 ]
Fillers(k) == [ i \in 1..k |-> Filler ]
FillerCounts == { 0, 13, 14, 15 }

\* results[:15]
TopN == 15
top(results) == SubSeq(results, 1, Min(TopN, Len(results)))

\* lines 49-53: the results scored 0.70 or more, in search order
RECURSIVE keep_scored(_)
keep_scored(results) ==
  IF results = <<>> THEN <<>>
  ELSE (IF Head(results).score >= 700 THEN << Head(results) >> ELSE <<>>)
         \o keep_scored(Tail(results))

\* x put into a list sorted by descending score, behind the entries that
\* score the same
RECURSIVE put(_, _)
put(sorted, x) ==
  IF sorted = <<>> THEN << x >>
  ELSE IF Head(sorted).score >= x.score THEN << Head(sorted) >> \o put(Tail(sorted), x)
  ELSE << x >> \o sorted

\* x put into the list before the entries that score the same
RECURSIVE put_before(_, _)
put_before(sorted, x) ==
  IF sorted = <<>> THEN << x >>
  ELSE IF Head(sorted).score > x.score THEN << Head(sorted) >> \o put_before(Tail(sorted), x)
  ELSE << x >> \o sorted

\* a descending sort that turns the order of equal scores round
RECURSIVE sort_reverse_unstable(_)
sort_reverse_unstable(scored) ==
  IF scored = <<>> THEN <<>>
  ELSE put_before(sort_reverse_unstable(SubSeq(scored, 1, Len(scored) - 1)), scored[Len(scored)])

\* line 59: scored.sort(reverse=True, key=score); the sort is stable, equal
\* scores keep their order
RECURSIVE sort_reverse(_)
sort_reverse(scored) ==
  IF scored = <<>> THEN <<>>
  ELSE put(sort_reverse(SubSeq(scored, 1, Len(scored) - 1)), scored[Len(scored)])

NoMatch(searched) == [ kind |-> "None", rid |-> 0, confidence |-> 0, searched |-> searched ]

\* find_best_match from line 36 on, artist and album being set: strong says
\* whether a catalog number or barcode was found, exact is what
\* _try_exact_match returns, results what _search_discogs returns
find_best_match(strong, exact, results) ==
  IF strong /\ exact.found
  THEN [ kind |-> "match", rid |-> exact.rid, confidence |-> exact.confidence * 10,
         searched |-> FALSE ]
  ELSE IF results = <<>> THEN NoMatch(TRUE)
  ELSE LET scored == sort_reverse(keep_scored(top(results)))
       IN  IF scored = <<>> THEN NoMatch(TRUE)
           ELSE IF scored[1].id = 0 THEN NoMatch(TRUE)
           ELSE [ kind |-> "match", rid |-> scored[1].id, confidence |-> scored[1].score,
                  searched |-> TRUE ]

ExactOutcomes ==
  { [ found |-> FALSE, rid |-> 0, confidence |-> 0 ],
    [ found |-> TRUE, rid |-> 2, confidence |-> 98 ] }

CallFindBestMatchSearch ==
  /\ call.fn = "none"
  /\ \E strong \in BOOLEAN, exact \in ExactOutcomes, k \in FillerCounts,
        tail \in SeqsUpTo(ScoredResults, MaxResults) :
       LET results == Fillers(k) \o tail
       IN  /\ call' = [ fn |-> "find_best_match from line 36", strong |-> strong,
                        exact |-> exact, results |-> results ]
           /\ ret' = find_best_match(strong, exact, results)
  /\ UNCHANGED << watchVars, scenarioVars, limiterVars, objVars >>

NextFuzzy ==
  \/ CallFindBestMatchSearch

SpecFuzzy == Init /\ [][NextFuzzy]_vars

\* ---------------------------------- passes of one search over its feed
\* The feed of a search from one pass to the next: a listing keeps its place
\* behind the newer ones, newer listings come in at the head, listings drop
\* out (sold, ended, or pushed out of the fetched window), and a seller may
\* revise the title or the price of a listing.
ItemIds(f) == { f[i].item_id : i \in 1..Len(f) }

\* the place of the listing with this id in f
PlaceOf(f, id) == CHOOSE i \in 1..Len(f) : f[i].item_id = id

\* feeds list every listing once
Feeds == { f \in Responses : \A i, j \in 1..Len(f) : i # j => f[i].item_id # f[j].item_id }

\* g may follow f: the listings kept are in the same order, and the ones
\* that are not in f stand before all that are
MayFollow(f, g) ==
  /\ \A i, j \in 1..Len(g) :
        (i < j /\ g[i].item_id \in ItemIds(f) /\ g[j].item_id \in ItemIds(f))
           => PlaceOf(f, g[i].item_id) < PlaceOf(f, g[j].item_id)
  /\ \A i, j \in 1..Len(g) :
        (i < j /\ g[j].item_id \notin ItemIds(f)) => g[i].item_id \notin ItemIds(f)

\* what the fetches of one search return over up to n passes; a listing that
\* dropped out does not come back
FeedHistories(n) ==
  { h \in SeqsUpTo(Feeds, n) :
      /\ \A k \in 1..(Len(h) - 1) : MayFollow(h[k], h[k + 1])
      /\ \A k, m \in 1..Len(h) :
            k + 1 < m => (ItemIds(h[m]) \cap ItemIds(h[k])) \subseteq ItemIds(h[m - 1]) }

\* the reference price the listings are projected on
HistoryBasis == 60000

\* one_pass after one_pass for one search (main, lines 201-205, keeps the
\* state in memory) from the k-th pass on: per pass the boundary read at
\* line 109, new_items, and the ids of the listings reported
RECURSIVE passes(_, _, _, _)
passes(h, k, last_seen, s) ==
  IF k > Len(h) THEN <<>>
  ELSE LET new == scan(h[k], 1, last_seen, s)
           reported == { i \in 1..Len(new) : qualifies(new[i], HistoryBasis) }
       IN  << [ boundary |-> last_seen, new_items |-> new,
                reported |-> { new[i].item_id : i \in reported } ] >>
             \o passes(h, k + 1, IF new # <<>> THEN new[1].item_id ELSE last_seen, s)

CallPasses ==
  /\ call.fn = "none"
  /\ \E h \in FeedHistories(MaxPasses) :
       /\ call' = [ fn |-> "passes", feeds |-> h ]
       /\ ret' = [ passes |-> passes(h, 1, NoId, searches[1]) ]
  /\ UNCHANGED << watchVars, scenarioVars, limiterVars, objVars >>

NextPasses ==
  \/ CallPasses

SpecPasses == Init /\ [][NextPasses]_vars

\* ================================================================ claims
AllSearches == 1..Len(searches)

\* the position of the first listing of the feed whose item_id is b
\* (one past the end when there is none, or when b is None)
BoundaryAt(feedItems, b) ==
  LET hits == { i \in 1..Len(feedItems) : b # NoId /\ feedItems[i].item_id = b }
  IN  IF hits = {} THEN Len(feedItems) + 1
      ELSE CHOOSE i \in hits : \A j \in hits : i <= j

PassesFilters(it, s) == it.title \cap exclude(s) = {} /\ it.total <= s.max_price

\* the listings of the feed before the boundary that pass both filters
NewBeforeBoundary(feedItems, b, s) ==
  LET cut == SubSeq(feedItems, 1, BoundaryAt(feedItems, b) - 1)
      ok(it) == PassesFilters(it, s)
  IN  SelectSeq(cut, ok)

InLog(l) == [ name |-> l.name, item_id |-> l.item_id ]

\* C1: in one pass of one search the scan stops at the first listing whose
\* item_id equals last_seen[name]: the new listings are exactly the listings
\* before that boundary that pass the exclude and max-price filters, and
\* nothing else is reported for the search.
C1_ScanStopsAtBoundary ==
  /\ (pc = "process" /\ todo = 1) =>
        new_items = NewBeforeBoundary(items, boundary, searches[idx])
  /\ pc = "process" =>
        \A l \in log : \E k \in 1..Len(new_items) :
           new_items[k].item_id = l.item_id /\ new_items[k].title = l.title

C3_FetchFailureSkipsSearch ==
  /\ \A i \in failed : state.last_seen[searches[i].name] = seen0[searches[i].name]
  /\ pc = "fetch" => failed \cup done = 1..(idx - 1)
  /\ pc \in { "save", "writing", "sleep" } => failed \cup done = AllSearches
  /\ failed \cap done = {}

\* C3 witness: one_pass returned after the first search's fetch raised and
\* the second search was processed and advanced its boundary.
C3_Witness ==
  /\ pc = "save"
  /\ failed = { 1 }
  /\ done = { 2 }
  /\ state.last_seen[searches[2].name] # seen0[searches[2].name]

Spaced(k) ==
  \A i \in 1..(Len(starts[k]) - 1) : starts[k][i + 1] - starts[k][i] >= Interval(k)

\* C4: when polite_call invocations follow one another, each outbound call to
\* an endpoint starts at least the endpoint's interval after the previous
\* one, whether that one returned or raised.
C4_MinIntervalSequential == \A k \in Endpoints : Spaced(k)

\* C5: with several threads sharing polite_call, no two outbound calls to one
\* endpoint start less than its interval apart (stated for runs in which no
\* call raised, so that the interleaving alone is judged).
C5_MinIntervalConcurrent == (~raised) => \A k \in Endpoints : Spaced(k)

\* C6: save_state is called exactly once after each completed one_pass, after
\* last_run is stamped, and never while a pass iterates over the searches.
C6_SaveOncePerPass ==
  /\ pc \in { "fetch", "process" } => saveCalls = passesDone
  /\ pc = "save" => saveCalls + 1 = passesDone /\ state.last_run = passNo
  /\ pc \in { "writing", "sleep" } => saveCalls = passesDone /\ state.last_run = passNo
  /\ pc = "exited" => saveCalls = 1 /\ passesDone = 1
  /\ (pc = "sleep" \/ pc = "exited") => file.kind = "json" /\ file.data.last_run = passNo

\* C6 witness: continuous mode asleep after its second pass and second save.
C6_Witness == pc = "sleep" /\ passesDone = 2 /\ saveCalls = 2

\* C7: after a crash during save_state the state file is complete (the
\* previous document, the new one, or still no file), never a partial write.
C7_AtomicSave == ended \in { "save", "writing" } => file.kind # "partial"

\* C8: when writing the state file fails, every search of the pass has been
\* processed and reported before, and the next pass starts from the
\* last_seen of the last successful save.
C8_SaveFailureKeepsBoundary ==
  /\ pc \in { "save", "writing" } => failed \cup done = AllSearches
  /\ (pc = "loaded" /\ ended = "savefail") => state.last_seen = lastSaved.last_seen

\* C9: a stop requested while a pass is in progress lets the pass run to
\* completion and its state is saved before the process ends.
C9_CleanStop ==
  ended \in { "fetch", "process" } => file.kind = "json" /\ file.data.last_run = passNo

\* C10: a listing is reported as a deal only after the validator accepted it;
\* a listing its prefilter rejects (a bundle) is never reported.
C10_ValidatorGatesReport == \A l \in log : phase1_prefilter(l.title)

\* C20: when matcher.find_best_match raises for a listing, that listing is
\* skipped (nothing is logged for it), one_pass goes on with the next listing
\* of the search, and the pass still returns with every search skipped or
\* processed.
C20_MatchErrorIsolated ==
  /\ [][ (matchErr' /\ ~matchErr) =>
           (pc' = "process" /\ todo' = todo + 1 /\ log' = log /\ state' = state
              /\ idx' = idx /\ new_items' = new_items) ]_vars
  /\ [](matchErr /\ pc \in { "save", "writing", "sleep" } => failed \cup done = AllSearches)

\* C20 witness: the matcher raised for a listing of the pass and one_pass
\* returned with every search processed.
C20_Witness ==
  /\ pc = "save"
  /\ matchErr
  /\ done = AllSearches

\* what the projection formula of the specification gives: fee in thousandths
NetProceeds(reference_price, fee, fixed, postage, packaging) ==
  Max(0, (reference_price * (1000 - fee)) \div 1000 - fixed - postage - packaging)

\* C11: a deal is logged by the watch loop (and ranked as a candidate by the
\* profit view) only if its projected profit is at least min_profit and its
\* margin at least min_margin_pct of its format.
C11_ThresholdGate ==
  /\ (call.fn = "one_pass" /\ ret.logged) =>
        /\ ret.proj >= call.pm.min_profit_gbp
        /\ ret.margin >= call.pm.min_margin_pct * 100
  /\ (call.fn = "profit_view" /\ ret.ranked) =>
        /\ ret.proj >= call.pm.min_profit_gbp
        /\ ret.margin >= call.pm.min_margin_pct * 100

\* C11 witness: a listing whose profit clears min_profit and whose margin does
\* not clear min_margin_pct went through the gate and was not logged.
C11_Witness ==
  /\ call.fn = "one_pass"
  /\ call.buy > 0
  /\ ret.proj >= call.pm.min_profit_gbp
  /\ ret.margin < call.pm.min_margin_pct * 100
  /\ ~ret.logged

\* C12: a listing whose total is <= 0 gets margin 0 and is never reported,
\* whatever the configured thresholds are.
C12_ZeroCostNeverQualifies ==
  /\ (call.fn = "one_pass" /\ call.buy <= 0) => (ret.margin = 0 /\ ~ret.logged)
  /\ (call.fn = "profit_view" /\ call.buy <= 0) => (ret.margin = 0 /\ ~ret.ranked)

\* C13: in the watch loop and in the profit view, net proceeds are
\* max(0, price x (1 - fee) - fixed fee - postage - packaging), never
\* negative, and profit is net proceeds minus the acquisition cost.
C13_NetProceedsFormula ==
  /\ call.fn = "one_pass" =>
        /\ ret.target_net = NetProceeds(call.basis, call.pm.fee_pct, call.pm.fee_fix_gbp,
                                         call.pm.outbound_postage_gbp, call.pm.mailer_cost_gbp)
        /\ ret.target_net >= 0
        /\ ret.proj = ret.target_net - call.buy
  /\ (call.fn = "profit_view" /\ ret.projected) =>
        /\ ret.target_net = NetProceeds(call.basis,
                                         call.pm.discogs_pct + call.pm.discogs_payment_pct,
                                         call.pm.discogs_fixed,
                                         call.pm.outbound_postage_gbp, call.pm.mailer_cost_gbp)
        /\ ret.target_net >= 0
        /\ ret.proj = ret.target_net - call.buy

\* the worked example: reference price 50.00, acquisition cost 20.00, vinyl,
\* fees 0.09 + 0.029, fixed 0.30, outbound postage 4.50, packaging 0.50
C14_Example ==
  /\ call.fn \in { "one_pass", "profit_view" }
  /\ call.buy = 20000
  /\ call.basis = 50000
  /\ call.pm.outbound_postage_gbp = 4500
  /\ call.pm.mailer_cost_gbp = 500
  /\ \/ call.fn = "profit_view" /\ ret.projected
              /\ call.pm.discogs_pct + call.pm.discogs_payment_pct = 119
              /\ call.pm.discogs_fixed = 300
     \/ call.fn = "one_pass" /\ call.pm.fee_pct = 119 /\ call.pm.fee_fix_gbp = 300

Near(x, y, tol) == x - y < tol /\ y - x < tol

C15_BundleRejected ==
  (call.fn = "match" /\ lower(call.title) \cap BUNDLE_KEYWORDS # {}) =>
     (ret.is_valid = FALSE /\ ret.confidence = 0)

\* C15 witness: "Pink Floyd Box Set Bundle Lot" was rejected although its
\* format is not contradicted and the titles are identical.
C15_Witness ==
  /\ call.fn = "match"
  /\ call.title = { "Pink Floyd", "Box Set", "Bundle", "Lot" }
  /\ call.similarity = 100
  /\ ret.is_valid = FALSE

\* a catalog number with spaces dropped and letters lower-cased
NormCat(x) == lower_str(remove_spaces(x))

\* the three vetoes on the arguments of a _calculate_match_score call
ArtistVeto(c) ==
  discogs_artist_found(c.discogs_result) /\ c.discogs_result.artist_similarity < 60
AlbumVeto(c) ==
  discogs_album_found(c.discogs_result) /\ c.discogs_result.album_similarity < 60
CatnoVeto(c) ==
  LET e == NormCat(c.identifiers.catalog_number)
      d == NormCat(c.discogs_result.catno)
  IN  e # <<>> /\ d # <<>> /\ ~Contains(d, e) /\ ~Contains(e, d)

\* C16: _calculate_match_score returns exactly 0.0 whenever the artist veto,
\* the album veto or the catalog-number veto holds, whatever year, country,
\* format and the other signals are.
C16_VetoGivesZero ==
  (call.fn = "_calculate_match_score"
     /\ (ArtistVeto(call) \/ AlbumVeto(call) \/ CatnoVeto(call))) => ret.score = 0

\* C16 witness: identical artist and album, matching year, country and
\* format, and conflicting catalog numbers: the score is 0.
C16_Witness ==
  /\ call.fn = "_calculate_match_score"
  /\ call.discogs_result.title = "artist - album"
  /\ call.discogs_result.artist_similarity = 100
  /\ call.discogs_result.album_similarity = 100
  /\ call.identifiers.year = 1973
  /\ call.identifiers.country = "UK"
  /\ call.ebay_item.vinyl_title
  /\ CatnoVeto(call)
  /\ ret.score = 0

\* the positions of the catalog entries that pass all checks of the exact path
\* (and have an id to be returned by)
PassingEntries(c) ==
  { i \in 1..Len(c.search.results) :
      entry_ok(c.identifiers, c.search.results[i]) /\ c.search.results[i].id # 0 }

\* C17: the exact-match path returns the first catalog entry that passes all
\* checks, with confidence 0.95 when matched by catalog number and 0.98 when
\* matched by barcode (either when both identifiers were used).
C17_ExactMatchConfidence ==
  (call.fn = "_try_exact_match" /\ ~call.search.raises
     /\ (call.identifiers.catalog_number # <<>> \/ call.identifiers.barcode # 0)
     /\ PassingEntries(call) # {}) =>
    LET first == CHOOSE i \in PassingEntries(call) : \A j \in PassingEntries(call) : i <= j
    IN  /\ ret.found
        /\ ret.rid = call.search.results[first].id
        /\ call.identifiers.barcode = 0 => ret.confidence = 95
        /\ call.identifiers.catalog_number = <<>> => ret.confidence = 98
        /\ ret.confidence \in { 95, 98 }

\* does the string hold one of the separators " - ", en-dash, em-dash, ":"
HasSeparator(x) == \E k \in 1..Len(SEPARATORS) : IndexOf(x, SEPARATORS[k]) # 0

\* C18 as stated: for every title that contains none of the separators,
\* artist and album come out unset and find_best_match returns None.
C18_NoSeparatorInTitle ==
  (call.fn = "find_best_match" /\ ~HasSeparator(call.title)) =>
     (ret.artist = <<>> /\ ret.album = <<>> /\ ret.result = "None")

\* C18, amended: for every title that contains none of the separators once
\* its noise words have been removed, artist and album come out unset and
\* find_best_match returns None.
C18_NoSeparatorAfterNoise ==
  (call.fn = "find_best_match" /\ ~HasSeparator(remove_noise(call.title))) =>
     (ret.artist = <<>> /\ ret.album = <<>> /\ ret.result = "None")

\* C18 witness: a title of two words joined by a bare hyphen, with no
\* separator before or after the noise removal, came out unset.
C18_Witness ==
  /\ call.fn = "find_best_match"
  /\ call.title = << "ab", "-", "ab" >>
  /\ ret.result = "None"

\* C19: every _request call makes at most 7 attempts and every _make_request
\* call at most 5, and each ends with a response or with a raised error.
C19_BoundedRetriesEndInResponseOrError ==
  /\ call.fn = "_request" =>
       (ret.attempts <= 7 /\ ret.kind \in { "response", "raise" })
  /\ call.fn = "_make_request" =>
       (ret.attempts <= 5 /\ ret.kind \in { "response", "raise" })

\* the reference price of a listing is missing, empty or unparseable
BadPriceData(psug) ==
  \/ psug.kind \in { "raise", "None" }
  \/ /\ ~truthy(grade_price(psug.nm)) /\ ~truthy(grade_price(psug.vg))
  \/ grade_price(psug.nm).kind = "text"
  \/ (~truthy(grade_price(psug.nm)) /\ grade_price(psug.vg).kind = "text")

\* C21: whatever reference price data and listing prices a search's new
\* listings carry, the pass goes through all of them without an exception,
\* and no listing whose reference price data is missing, empty or
\* unparseable, or whose own price is unparseable, is reported.
C21_BadDataNeverFatal ==
  call.fn = "process_new_items" =>
    /\ ~ret.raised
    /\ ret.processed = Len(call.items)
    /\ \A i \in 1..Len(call.items) :
         (BadPriceData(call.items[i].psug) \/ call.items[i].price.kind = "text")
            => i \notin ret.logged

\* C22: a lookup of an id for which the same method already returned data
\* returns that same data and issues no outbound request; a lookup of an id
\* for which it returned no data yet (never called, or only failed) issues a
\* request.
C22_CachedById ==
  [][ dc'.calls = dc.calls + 1 =>
        LET f == firstData[call'.fn][call'.release_id]
        IN  IF f # NoData THEN ret'.data = f /\ ~ret'.requested
                          ELSE ret'.requested ]_vars

\* C22 witness: the third lookup was served from the release cache, which
\* the one successful request before it had filled with version 2.
C22_Witness ==
  /\ dc.calls = 3
  /\ call.fn = "get_release"
  /\ ~ret.requested
  /\ ret.data = 2
  /\ dc.release_cache = [ i \in ReleaseIds |-> IF i = call.release_id THEN 2 ELSE NoData ]
  /\ dc.price_cache = [ i \in ReleaseIds |-> NoData ]

\* C23: under every interleaving of take(n) calls with n >= 0 on one bucket
\* the token count stays within [0, capacity]; a take returns True only if
\* the tokens after the refill were at least n, and it then removes exactly
\* n; the tokens granted in all never exceed burst + rate x elapsed time.
C23_TakeAtomic ==
  /\ [](bucket.tokens >= 0 /\ bucket.tokens <= capacity)
  /\ [](audit.granted <= capacity + rate_per_sec * audit.elapsed)
  /\ [][ audit'.takes = audit.takes + 1 =>
           /\ ret'.ok => (refill(bucket) >= call'.n * 10
                          /\ bucket'.tokens = refill(bucket) - call'.n * 10)
           /\ ~ret'.ok => bucket'.tokens = refill(bucket) ]_vars

\* C23 witness: both threads took tokens, the bucket was refilled in between
\* and is neither empty nor full.
C23_Witness ==
  /\ audit.takes = MaxTakes
  /\ audit.granted > capacity
  /\ audit.elapsed > 0
  /\ bucket.tokens > 0
  /\ bucket.tokens < capacity

\* C24: a thread leaves wait(n) only on a round whose take(n) succeeded, and
\* with rate > 0 and n <= capacity every thread inside wait leaves it in the
\* end, whatever the other threads sharing the bucket do.
C24_WaitReturns ==
  /\ [][ \A c \in BucketThreads :
           (waiters[c].pc # "idle" /\ waiters'[c].pc = "idle") =>
              (call'.fn = "wait" /\ call'.thread = c /\ ret'.ok) ]_vars
  /\ \A c \in BucketThreads :
       (waiters[c].pc # "idle" /\ waiters[c].n <= burst) ~> (waiters[c].pc = "idle")

\* the key of the entry matches the listing's: catalog numbers equal once
\* normalised, or barcodes equal
KeyMatches(identifiers, res) ==
  \/ (identifiers.catalog_number # <<>>
        /\ norm(identifiers.catalog_number) = norm(res.catno))
  \/ (identifiers.barcode # 0 /\ identifiers.barcode = res.barcode)

\* the similarity gates on the parts of the entry's title: the artist part
\* and the album part of a combined title, else the whole title as album
\* with an empty artist
GatesOnParts(identifiers, res) ==
  LET d_artist == IF Len(res.title) = 2 THEN res.title[1] ELSE ""
      d_album  == IF Len(res.title) = 2 THEN res.title[2] ELSE res.title[1]
  IN  sim(identifiers.artist, d_artist) >= 80 /\ sim(identifiers.album, d_album) >= 60

\* C25: the exact-match path accepts an entry only if its key matches and
\* the artist part and album part of its title pass the gates, artist >= 0.80
\* and album >= 0.60.
C25_AcceptsOnlyOnKeyAndGates ==
  (call.fn = "_try_exact_match on titles" /\ ret.found) =>
     \E i \in 1..Len(call.results) :
        /\ call.results[i].id = ret.rid
        /\ KeyMatches(call.identifiers, call.results[i])
        /\ GatesOnParts(call.identifiers, call.results[i])

\* the positions among the first 15 results whose score reaches 0.70
Kept(results) == { i \in 1..Min(15, Len(results)) : results[i].score >= 700 }

\* the kept position with the highest score, the earliest among equals
Best(results) ==
  CHOOSE i \in Kept(results) :
    \A j \in Kept(results) :
       results[i].score > results[j].score \/ (results[i].score = results[j].score /\ i <= j)

StageOf(reason) ==
  CASE reason \in { "REJECT: Bundle indicator found", "REJECT: Multiple albums detected",
                    "REJECT: Damaged/incomplete indicator" } -> 1
    [] reason \in { "REJECT: Format mismatch",
                    "WARNING: Could not detect format from eBay title" } -> 2
    [] reason \in { "REJECT: Title similarity too low", "  eBay:", "  Discogs:" } -> 3
    [] reason = "WARNING: price" -> 4

IsReject(reason) ==
  reason \in { "REJECT: Bundle indicator found", "REJECT: Multiple albums detected",
               "REJECT: Damaged/incomplete indicator", "REJECT: Format mismatch",
               "REJECT: Title similarity too low" }

\* no eBay format term stands in the title
FormatNotInferred(c) ==
  \A i \in 1..Len(EBAY_FORMAT_TERMS) : EBAY_FORMAT_TERMS[i].terms \cap lower(c.title) = {}

\* the listing price is under half or over one and a half times the
\* reference price
PriceFlag(c) ==
  c.median_price # 0 /\ (c.price * 2 < c.median_price \/ c.price * 2 > c.median_price * 3)

C28_BoundaryAssignedOncePerSearch ==
  /\ [][ (pc \in { "fetch", "process" } /\ pc' \in { "fetch", "process", "save" }) =>
           /\ state'.last_seen # state.last_seen =>
                 /\ pc = "fetch" /\ pc' = "process"
                 /\ new_items' # <<>>
           /\ (pc = "fetch" /\ pc' = "process") =>
                 state'.last_seen =
                    IF new_items' = <<>> THEN state.last_seen
                    ELSE [ state.last_seen EXCEPT ![searches[idx].name] = new_items'[1].item_id ]
           /\ (pc = "fetch" /\ pc' = "process") => idx \notin done \cup failed ]_vars
  /\ [][ (pc = "process" /\ pc' = "fetch") => (idx' = idx + 1 /\ idx \in done') ]_vars

\* C28 witness: the scan of the second search found two new listings, and
\* last_seen of that search is now the id of the first of them, next to the
\* boundary the first search was given in this pass.
C28_Witness ==
  /\ pc = "process"
  /\ idx = 2
  /\ todo = 1
  /\ Len(new_items) = 2
  /\ new_items[1].item_id # new_items[2].item_id
  /\ state.last_seen[searches[2].name] = new_items[1].item_id
  /\ state.last_seen[searches[1].name] = new_items[2].item_id
  /\ seen0[searches[1].name] = NoId

\* no listing of the feeds was revised from one pass to the next
Unrevised(h) ==
  \A k, m \in 1..Len(h) : \A i \in 1..Len(h[k]), j \in 1..Len(h[m]) :
     h[k][i].item_id = h[m][j].item_id => h[k][i] = h[m][j]

\* C29: over passes on a feed in which newer listings are prepended and older
\* ones drop out or are removed, no listing is reported in two passes.
C29_ReportedOnce ==
  (call.fn = "passes" /\ Unrevised(call.feeds)) =>
     \A k, m \in 1..Len(ret.passes) :
        k # m => ret.passes[k].reported \cap ret.passes[m].reported = {}

\* C30: a listing that was scanned as new in a pass is not among the new
\* listings of a later pass in whose feed the boundary listing still is.
C30_ScannedOnce ==
  call.fn = "passes" =>
     \A k, m \in 1..Len(ret.passes) :
        (k < m /\ ret.passes[m].boundary \in ItemIds(call.feeds[m])) =>
           ItemIds(ret.passes[k].new_items) \cap ItemIds(ret.passes[m].new_items) = {}

====
